---- MODULE Spec2Model ----
(***************************************************************************)
(* Model of hubspace_controller.py: the sync-to-async bridge between       *)
(* request threads (callers) and the background thread that runs the       *)
(* asyncio event loop owning the aioafero bridge.  The last part models    *)
(* the score-to-brightness sync of light_controller.py.                    *)
(*                                                                         *)
(* Granularity.  Caller threads are preemptive: every read-then-write of a *)
(* module global that the source performs in separate statements is split  *)
(* into separate actions.  Code running on the event loop is cooperative:  *)
(* a coroutine runs without interruption by other coroutines of the same   *)
(* loop between two awaits, so one action of a task (or of _init_bridge)   *)
(* covers the code from one await to the next.                             *)
(***************************************************************************)
EXTENDS Integers, Sequences, FiniteSets, TLC

(***************************************************************************)
(* Bounds of the model.                                                    *)
(***************************************************************************)
MaxThreads == 2     \* background threads spawned in one behaviour
MaxCalls == 2       \* control / status / bridge calls made in one behaviour
MaxTime == 10       \* the clock stops advancing here
MaxScore == 21      \* scores of a game range over 0..MaxScore
MaxAlerts == 3      \* alert requests received in one behaviour

(***************************************************************************)
(* Program constants.                                                      *)
(***************************************************************************)
CACHE_TTL == 10
ALERTS_MAXLEN == 50

Callers == {"main", "c1", "c2"}
Threads == 1..MaxThreads

(***************************************************************************)
(* The account behind the cloud API: what the platform knows.              *)
(***************************************************************************)
Account ==
    [abc  |-> [name |-> "Kitchen Light", class |-> "light", power |-> TRUE],
     fan1 |-> [name |-> "Porch Fan",     class |-> "fan",   power |-> TRUE],
     fan2 |-> [name |-> "Porch Fan",     class |-> "fan",   power |-> TRUE],
     hub0 |-> [name |-> "Hub",           class |-> "other", power |-> FALSE]]

AccountIds == DOMAIN Account

\* The order of the raw listing endpoint.
RawListing == <<"abc", "fan1", "fan2", "hub0">>

\* What the SDK controllers (lights, fans, switches, in that order) may hold
\* after initialize(): everything, partial data, or nothing.
SdkViews == {<< >>, <<"abc">>, <<"abc", "fan1", "fan2">>}

\* str.lower() on the strings that occur.
Lower(s) ==
    CASE s = "Kitchen Light" -> "kitchen light"
      [] s = "KITCHEN LIGHT" -> "kitchen light"
      [] s = "Porch Fan"     -> "porch fan"
      [] s = "Hub"           -> "hub"
      [] OTHER               -> s

\* Identifiers callers pass to the control and status functions.
CallIdents == {"abc", "KITCHEN LIGHT", "nope"}

Levels == {0, 50}

\* The devices before the service touches them: switched on, at a brightness
\* the service did not set.
LitState == [on |-> TRUE, brightness |-> 80]

Snapshots == [on : BOOLEAN, brightness : Levels \cup {LitState.brightness}]

(***************************************************************************)
(* Python dicts as functions with a finite domain.                         *)
(***************************************************************************)
EmptyDict == [k \in {} |-> 0]
Put(f, k, v) == [x \in (DOMAIN f) \cup {k} |-> IF x = k THEN v ELSE f[x]]
Pop(f, k) == [x \in (DOMAIN f) \ {k} |-> f[x]]

(***************************************************************************)
(* Results handed to callers.                                              *)
(***************************************************************************)
NoResult == [kind |-> "none"]
Ok == [kind |-> "ok"]
Err(m) == [kind |-> "error", error |-> m]
Raised(m) == [kind |-> "raise", error |-> m]
Status(s) == [kind |-> "status", on |-> s.on, brightness |-> s.brightness]
StatusErr(m) == [kind |-> "status", on |-> FALSE, brightness |-> 0, error |-> m]

UnknownDevice == Err("Unknown device")
NotConnected == Err("Hubspace not connected")
ApiFailed == Err("API call failed")

VARIABLES
    credsPresent,   \* HUBSPACE_EMAIL and HUBSPACE_PASSWORD are in .env
    hasAioafero,    \* HAS_AIOAFERO
    bridge,         \* _bridge: 0 (None) or the instance, named by its creator thread
    loop,           \* _loop: 0 (None) or the event loop, named by its thread
    thread,         \* _thread: 0 (None) or the latest Thread object
    ready,          \* _ready.is_set()
    readySets,      \* history: number of _ready.set() calls
    devices,        \* _devices: id -> [name, type, id]
    device_names,   \* _device_names: lower-cased name -> id
    status_cache,   \* _status_cache: id -> [data, ts]
    worker,         \* per background thread: position in _run_loop / _init_bridge
    caller,         \* per caller thread: position in the function it is running
    tasks,          \* coroutines submitted with run_coroutine_threadsafe
    cloud,          \* the platform's state of each device
    mem,            \* the SDK controllers' in-memory device state
    now,            \* time.time()
    calls,          \* history: other calls begun
    clean,          \* history: devices with a successful mutation and no status read since
    home_score,     \* light_controller: the home_score argument of the sync
    away_score,     \* light_controller: the away_score argument of the sync
    lutron,         \* light_controller: level of each Lutron light on its bridge
    light_cache,    \* light_controller._status_cache: the light ids it holds
    score_sync,     \* light_controller: what apply_score_brightness gave back
    alert_counter,  \* score_display.alert_counter
    alerts,         \* score_display.alerts: the deque, newest first
    handler,        \* score_display: per request thread, position in its view function
    posted          \* history: alert requests received

vars == <<credsPresent, hasAioafero, bridge, loop, thread, ready, readySets,
          devices, device_names, status_cache, worker, caller, tasks, cloud,
          mem, now, calls, clean,
          home_score, away_score, lutron, light_cache, score_sync,
          alert_counter, alerts, handler, posted>>

lightVars == <<home_score, away_score, lutron, light_cache, score_sync>>
alertVars == <<alert_counter, alerts, handler, posted>>
scoreVars == <<lightVars, alertVars>>
envVars == <<credsPresent, hasAioafero>>
catalogVars == <<devices, device_names>>
deviceVars == <<cloud, mem>>

(***************************************************************************)
(* Operations of the module, by shape.                                     *)
(***************************************************************************)
PowerOps == {"turn_on", "turn_off"}
ValueOps == {"set_color", "set_effect", "set_color_temp"}
MutatingOps == PowerOps \cup ValueOps \cup {"set_brightness"}

IdleCaller ==
    [pc |-> "idle", op |-> "none", arg |-> 0, dev |-> "",
     fut |-> 0, got |-> 0, result |-> NoResult, preReady |-> FALSE,
     cached |-> FALSE, popped |-> FALSE,
     todo |-> << >>, size |-> 0, entries |-> EmptyDict]

UnbornWorker == [pc |-> "unborn", todo |-> << >>, items |-> << >>]

LutronLights == {"parlor", "octagon"}

\* hubspace_controller.py as imported, lines 32-39.
HubspaceInit ==
    /\ credsPresent \in BOOLEAN
    /\ hasAioafero \in BOOLEAN
    /\ bridge = 0
    /\ loop = 0
    /\ thread = 0
    /\ ready = FALSE
    /\ readySets = 0
    /\ devices = EmptyDict
    /\ device_names = EmptyDict
    /\ status_cache = EmptyDict
    /\ worker = [t \in Threads |-> UnbornWorker]
    /\ caller = [c \in Callers |-> IdleCaller]
    /\ tasks = << >>
    /\ cloud = [d \in AccountIds |-> LitState]
    /\ mem = cloud
    /\ now = 0
    /\ calls = 0
    /\ clean = {}

\* light_controller.py as imported: no sync asked for, nothing cached.
LightsInit ==
    /\ home_score = 0
    /\ away_score = 0
    /\ lutron = [l \in LutronLights |-> 0]
    /\ light_cache = {}
    /\ score_sync = NoResult

\* Threads of the Flask server that run the alert views.
Requests == {"r1", "r2"}

IdleHandler ==
    [pc |-> "idle", view |-> "none", tmp |-> 0,
     data |-> [alert_id |-> 0, game_id |-> "", final |-> FALSE],
     home |-> 0, away |-> 0, stamped |-> 0, applied |-> FALSE,
     response |-> NoResult]

\* score_display.py as imported, lines 31-35.
AlertsInit ==
    /\ alert_counter = 0
    /\ alerts = << >>
    /\ handler = [r \in Requests |-> IdleHandler]
    /\ posted = 0

Init == HubspaceInit /\ LightsInit /\ AlertsInit

(***************************************************************************)
(* start()                                                                 *)
(***************************************************************************)
IsAlive(t) == worker[t].pc \notin {"unborn", "exited"}
Spawned == {t \in Threads : worker[t].pc # "unborn"}
Spawning == {c \in Callers : caller[c].pc = "spawn"}

\* `if _thread and _thread.is_alive(): return`
StartGuard(th) == th # 0 /\ IsAlive(th)

\* A caller thread runs one function at a time.
MayBegin(c) == caller[c].pc = "idle"

\* start(), line 144: the check of the running thread.
StartCheck(c) ==
    /\ MayBegin(c)
    /\ Cardinality(Spawned) + Cardinality(Spawning) < MaxThreads
    /\ caller' = [caller EXCEPT ![c] =
            [IdleCaller EXCEPT !.op = "start",
                               !.pc = IF StartGuard(thread) THEN "idle" ELSE "spawn"]]
    /\ UNCHANGED <<scoreVars, envVars, bridge, loop, thread, ready, readySets, catalogVars,
                   status_cache, worker, tasks, deviceVars, now, calls, clean>>

\* start(), lines 146-147: create and start the thread.
StartSpawn(c) ==
    /\ caller[c].pc = "spawn"
    /\ LET t == Cardinality(Spawned) + 1 IN
        /\ t \in Threads
        /\ thread' = t
        /\ worker' = [worker EXCEPT ![t].pc = "spawned"]
    /\ caller' = [caller EXCEPT ![c].pc = "ready_wait"]
    /\ UNCHANGED <<scoreVars, envVars, bridge, loop, ready, readySets, catalogVars,
                   status_cache, tasks, deviceVars, now, calls, clean>>

\* start(), line 149: _ready.wait(timeout=25) returns when the event is set or
\* when 25 s have passed.
StartReturn(c) ==
    /\ caller[c].pc = "ready_wait"
    /\ caller' = [caller EXCEPT ![c].pc = "idle"]
    /\ UNCHANGED <<scoreVars, envVars, bridge, loop, thread, ready, readySets, catalogVars,
                   status_cache, worker, tasks, deviceVars, now, calls, clean>>

(***************************************************************************)
(* _run_loop() and _init_bridge(), run by background thread t.             *)
(***************************************************************************)
\* _run_loop, lines 45-46.
RunLoop(t) ==
    /\ worker[t].pc = "spawned"
    /\ loop' = t
    /\ worker' = [worker EXCEPT ![t].pc = "creds"]
    /\ UNCHANGED <<scoreVars, envVars, bridge, thread, ready, readySets, catalogVars,
                   status_cache, caller, tasks, deviceVars, now, calls, clean>>

\* _init_bridge, lines 54-59 and 61-64: degraded mode.
InitDegraded(t) ==
    /\ worker[t].pc = "creds"
    /\ ~credsPresent \/ ~hasAioafero
    /\ ready' = TRUE
    /\ readySets' = readySets + 1
    /\ worker' = [worker EXCEPT ![t].pc = "exited"]
    /\ UNCHANGED <<scoreVars, envVars, bridge, loop, thread, catalogVars, status_cache,
                   caller, tasks, deviceVars, now, calls, clean>>

InitCreateUnbound(t) ==
    /\ worker[t].pc = "creds"
    /\ credsPresent /\ hasAioafero
    /\ worker' = [worker EXCEPT ![t].pc = "init"]
    /\ UNCHANGED <<scoreVars, envVars, bridge, loop, thread, ready, readySets,
                   catalogVars, status_cache, caller, tasks, deviceVars, now,
                   calls, clean>>

\* _init_bridge, lines 66-70: create the bridge and await initialize().
InitCreate(t) ==
    /\ worker[t].pc = "creds"
    /\ credsPresent /\ hasAioafero
    /\ bridge' = t
    /\ worker' = [worker EXCEPT ![t].pc = "init"]
    /\ UNCHANGED <<scoreVars, envVars, loop, thread, ready, readySets, catalogVars,
                   status_cache, caller, tasks, deviceVars, now, calls, clean>>

\* _init_bridge, lines 70-78: initialize() returned, timed out or raised; the
\* controllers hold whatever was loaded.
InitDone(t) ==
    /\ worker[t].pc = "init"
    /\ \E view \in SdkViews :
        worker' = [worker EXCEPT ![t].pc = "discover", ![t].items = view,
                                 ![t].todo = view]
    /\ UNCHANGED <<scoreVars, envVars, bridge, loop, thread, ready, readySets, catalogVars,
                   status_cache, caller, tasks, deviceVars, now, calls, clean>>

\* The catalog entry written at lines 80-85 and 108-109.
Catalogued(devs, id, label) ==
    Put(devs, id, [name |-> Account[id].name, type |-> label, id |-> id])

IndexedFirstWins(names, id) ==
    IF Lower(Account[id].name) \in DOMAIN names THEN names
    ELSE Put(names, Lower(Account[id].name), id)

\* The index entry written at lines 85 and 109.
Indexed(names, id) == Put(names, Lower(Account[id].name), id)

\* _init_bridge, lines 78-86: one iteration of the discovery loops.
Discover(t) ==
    /\ worker[t].pc = "discover"
    /\ worker[t].todo # << >>
    /\ LET id == Head(worker[t].todo) IN
        /\ devices' = Catalogued(devices, id, Account[id].class)
        /\ device_names' = Indexed(device_names, id)
    /\ worker' = [worker EXCEPT ![t].todo = Tail(@)]
    /\ UNCHANGED <<scoreVars, envVars, bridge, loop, thread, ready, readySets, status_cache,
                   caller, tasks, deviceVars, now, calls, clean>>

\* _init_bridge, lines 89-93: nothing was catalogued, so the direct listing
\* is requested.
DiscoverNone(t) ==
    /\ worker[t].pc = "discover"
    /\ worker[t].todo = << >>
    /\ DOMAIN devices = {}
    /\ worker' = [worker EXCEPT ![t].pc = "fallback"]
    /\ UNCHANGED <<scoreVars, envVars, bridge, loop, thread, ready, readySets, catalogVars,
                   status_cache, caller, tasks, deviceVars, now, calls, clean>>

\* _init_bridge, lines 89 and 114-120: the catalog is not empty; latch the
\* event and sleep.
DiscoverReady(t) ==
    /\ worker[t].pc = "discover"
    /\ worker[t].todo = << >>
    /\ DOMAIN devices # {}
    /\ ready' = TRUE
    /\ readySets' = readySets + 1
    /\ worker' = [worker EXCEPT ![t].pc = "idle"]
    /\ UNCHANGED <<scoreVars, envVars, bridge, loop, thread, catalogVars, status_cache,
                   caller, tasks, deviceVars, now, calls, clean>>

\* Lines 105-107: the entries of the raw listing that expose "power".
RECURSIVE WithPower(_)
WithPower(s) ==
    IF s = << >> THEN << >>
    ELSE IF Account[Head(s)].power THEN <<Head(s)>> \o WithPower(Tail(s))
    ELSE WithPower(Tail(s))

\* _init_bridge, lines 91-100: the direct listing request answered 200.
FallbackListed(t) ==
    /\ worker[t].pc = "fallback"
    /\ worker' = [worker EXCEPT ![t].pc = "fallback_fill",
                                ![t].todo = WithPower(RawListing)]
    /\ UNCHANGED <<scoreVars, envVars, bridge, loop, thread, ready, readySets, catalogVars,
                   status_cache, caller, tasks, deviceVars, now, calls, clean>>

FallbackAborts(t) ==
    /\ worker[t].pc = "fallback"
    /\ worker' = [worker EXCEPT ![t].pc = "exited"]
    /\ UNCHANGED <<scoreVars, envVars, bridge, loop, thread, ready, readySets, catalogVars,
                   status_cache, caller, tasks, deviceVars, now, calls, clean>>

\* _init_bridge, lines 99, 111-112 and 114-120: another status, or an
\* exception; latch the event and sleep.
FallbackFailed(t) ==
    /\ worker[t].pc = "fallback"
    /\ ready' = TRUE
    /\ readySets' = readySets + 1
    /\ worker' = [worker EXCEPT ![t].pc = "idle"]
    /\ UNCHANGED <<scoreVars, envVars, bridge, loop, thread, catalogVars, status_cache,
                   caller, tasks, deviceVars, now, calls, clean>>

\* _init_bridge, lines 101-110: one iteration over the raw listing.
FallbackFill(t) ==
    /\ worker[t].pc = "fallback_fill"
    /\ worker[t].todo # << >>
    /\ LET id == Head(worker[t].todo) IN
        /\ devices' = Catalogued(devices, id, "light")
        /\ device_names' = Indexed(device_names, id)
    /\ worker' = [worker EXCEPT ![t].todo = Tail(@)]
    /\ UNCHANGED <<scoreVars, envVars, bridge, loop, thread, ready, readySets, status_cache,
                   caller, tasks, deviceVars, now, calls, clean>>

\* _init_bridge, lines 114-120: the listing is consumed; latch the event and
\* sleep.
FallbackReady(t) ==
    /\ worker[t].pc = "fallback_fill"
    /\ worker[t].todo = << >>
    /\ ready' = TRUE
    /\ readySets' = readySets + 1
    /\ worker' = [worker EXCEPT ![t].pc = "idle"]
    /\ UNCHANGED <<scoreVars, envVars, bridge, loop, thread, catalogVars, status_cache,
                   caller, tasks, deviceVars, now, calls, clean>>

(***************************************************************************)
(* The device catalog.                                                     *)
(***************************************************************************)
NoDevice == ""

get_device_id_exact(devs, names, name_or_id) ==
    IF name_or_id \in DOMAIN devs THEN name_or_id
    ELSE IF name_or_id \in DOMAIN names THEN names[name_or_id]
    ELSE NoDevice

\* get_device_id, lines 157-161 (None is NoDevice).
get_device_id(devs, names, name_or_id) ==
    IF name_or_id \in DOMAIN devs THEN name_or_id
    ELSE IF Lower(name_or_id) \in DOMAIN names THEN names[Lower(name_or_id)]
    ELSE NoDevice

ResolvedAlways(resolved) == TRUE

\* `if not resolved` (lines 210, 233, 254, 272, 287, 302, 317) is false.
Resolved(resolved) == resolved # NoDevice

(***************************************************************************)
(* Control functions: turn_on, turn_off, set_brightness, set_color,        *)
(* set_effect, set_color_temp.  All six share lines 209-212 and 227.       *)
(***************************************************************************)
Returned(c) == caller[c].pc = "idle" /\ caller[c].op # "none"

ArgsOf(op) == IF op = "set_brightness" THEN Levels ELSE {0}

\* Lines 209-211 (253-255, ...): resolve, fail fast on an unknown device.
ControlBegin(c, ops) ==
    /\ MayBegin(c)
    /\ calls < MaxCalls
    /\ calls' = calls + 1
    /\ \E op \in ops, ident \in CallIdents :
        \E arg \in ArgsOf(op) :
            LET resolved == get_device_id(devices, device_names, ident) IN
            caller' = [caller EXCEPT ![c] =
                [IdleCaller EXCEPT !.op = op, !.arg = arg,
                    !.dev = resolved, !.preReady = ~ready,
                    !.pc = IF Resolved(resolved) THEN "invalidate" ELSE "idle",
                    !.result = IF Resolved(resolved) THEN NoResult
                               ELSE UnknownDevice]]
    /\ UNCHANGED <<scoreVars, envVars, bridge, loop, thread, ready, readySets, catalogVars,
                   status_cache, worker, tasks, deviceVars, now, clean>>

InvalidatedNever(cache, d) == cache

\* `_status_cache.pop(resolved, None)`, line 212.
Invalidated(cache, d) == Pop(cache, d)

Invalidate(c) ==
    /\ caller[c].pc = "invalidate"
    /\ status_cache' = Invalidated(status_cache, caller[c].dev)
    /\ caller' = [caller EXCEPT ![c].pc = "submit",
                    ![c].cached = caller[c].dev \in DOMAIN status_cache,
                    ![c].popped = caller[c].dev \notin DOMAIN status_cache']
    /\ UNCHANGED <<scoreVars, envVars, bridge, loop, thread, ready, readySets, catalogVars,
                   worker, tasks, deviceVars, now, calls, clean>>

(***************************************************************************)
(* _run_async(coro, timeout=10)                                            *)
(***************************************************************************)
RunAsyncLoopOnly(l, b) == l # 0

\* Line 132: `if not _loop or not _bridge` is false.
RunAsyncConnected(l, b) == l # 0 /\ b # 0

\* The coroutine a function hands to _run_async; get_all_status does so
\* through get_status (line 374).
CoroutineOf(op) == IF op = "get_all_status" THEN "get_status" ELSE op

\* `{**dev_info, **status}`, line 377.
Merge(info, status) ==
    [k \in (DOMAIN info) \cup (DOMAIN status) |->
        IF k \in DOMAIN status THEN status[k] ELSE info[k]]

\* Line 377: the entry get_all_status records for a device.
Entry(info, status) == Merge(info, status)

\* A function returns r.  Inside get_all_status the function is get_status
\* called at line 374: its result is merged into the report (line 377) and
\* the loop goes on.
Returns(rec, r) ==
    IF rec.op = "get_all_status"
    THEN [rec EXCEPT !.pc = "all_next", !.result = NoResult,
                     !.entries = Put(@, rec.dev, Entry(devices[rec.dev], r)),
                     !.todo = Tail(@)]
    ELSE [rec EXCEPT !.pc = "idle", !.result = r]

NewTask(c, l) ==
    [owner |-> c, op |-> CoroutineOf(caller[c].op), dev |-> caller[c].dev,
     arg |-> caller[c].arg, loop |-> l, pc |-> "queued", sent |-> << >>,
     answers |-> << >>, outcome |-> NoResult, delivered |-> 0, cached |-> caller[c].cached,
     popped |-> caller[c].popped]

FutureShared(queue) == 1

\* The future run_coroutine_threadsafe returns for the coroutine just queued.
FutureOf(queue) == Len(queue)

\* Lines 132-134: refuse when not connected, else queue the coroutine.
Submit(c) ==
    /\ caller[c].pc = "submit"
    /\ IF RunAsyncConnected(loop, bridge)
       THEN /\ tasks' = Append(tasks, NewTask(c, loop))
            /\ caller' = [caller EXCEPT ![c].pc = "wait",
                                        ![c].fut = FutureOf(tasks')]
       ELSE /\ tasks' = tasks
            /\ caller' = [caller EXCEPT ![c] = Returns(@, NotConnected)]
    /\ UNCHANGED <<scoreVars, envVars, bridge, loop, thread, ready, readySets, catalogVars,
                   status_cache, worker, deviceVars, now, calls, clean>>

\* A direct use of _run_async with a coroutine that only returns.
RunAsyncBegin(c) ==
    /\ MayBegin(c)
    /\ calls < MaxCalls
    /\ calls' = calls + 1
    /\ caller' = [caller EXCEPT ![c] =
            [IdleCaller EXCEPT !.op = "run_async", !.preReady = ~ready,
                               !.pc = "submit"]]
    /\ UNCHANGED <<scoreVars, envVars, bridge, loop, thread, ready, readySets, catalogVars,
                   status_cache, worker, tasks, deviceVars, now, clean>>

HasErrorNever(r) == FALSE

\* `"error" in result`, line 363.
HasError(r) == "error" \in DOMAIN r

RunAsyncPropagates(outcome) == outcome

\* Lines 135-138: what future.result() yields, with an exception of the
\* coroutine turned into an error result.
RunAsyncResult(outcome) ==
    IF outcome.kind = "raise" THEN Err(outcome.error) ELSE outcome

\* str(TimeoutError()) is the empty string.
TimedOut == Err("")

\* The future's result is handed to the waiting caller.
Consumed(t) == [t EXCEPT !.delivered = @ + 1]

\* Line 136: the future completed within the timeout.
WaitDone(c) ==
    /\ caller[c].pc = "wait"
    /\ LET k == caller[c].fut
           r == RunAsyncResult(tasks[k].outcome)
           stores == CoroutineOf(caller[c].op) = "get_status" /\ ~HasError(r)
       IN
        /\ tasks[k].pc = "done"
        /\ tasks' = [tasks EXCEPT ![k] = Consumed(@)]
        /\ caller' = [caller EXCEPT ![c] =
                        IF stores
                        THEN [@ EXCEPT !.result = r, !.got = k, !.pc = "store"]
                        ELSE Returns([@ EXCEPT !.got = k], r)]
        /\ clean' = IF caller[c].op \in MutatingOps /\ r = Ok
                    THEN clean \cup {caller[c].dev} ELSE clean
    /\ UNCHANGED <<scoreVars, envVars, bridge, loop, thread, ready, readySets, catalogVars,
                   status_cache, worker, deviceVars, now, calls>>

WaitTimeoutCancels(c) ==
    /\ caller[c].pc = "wait"
    /\ tasks[caller[c].fut].pc # "done"
    /\ caller' = [caller EXCEPT ![c] = Returns(@, TimedOut)]
    /\ tasks' = [tasks EXCEPT ![caller[c].fut].pc = "done",
                              ![caller[c].fut].outcome = Raised("cancelled")]
    /\ UNCHANGED <<scoreVars, envVars, bridge, loop, thread, ready, readySets,
                   catalogVars, status_cache, worker, deviceVars, now, calls,
                   clean>>

\* Lines 136-138: the 10 s passed first; the coroutine is left running.
WaitTimeout(c) ==
    /\ caller[c].pc = "wait"
    /\ tasks[caller[c].fut].pc # "done"
    /\ caller' = [caller EXCEPT ![c] = Returns(@, TimedOut)]
    /\ UNCHANGED <<scoreVars, envVars, bridge, loop, thread, ready, readySets, catalogVars,
                   status_cache, worker, tasks, deviceVars, now, calls, clean>>

(***************************************************************************)
(* The coroutines (_do, _fetch) on the event loop.                         *)
(***************************************************************************)
\* The loop's thread is inside run_until_complete and _init_bridge is
\* suspended at an await (lines 70, 93-100, 120).
LoopFree(l) == worker[l].pc \in {"init", "fallback", "idle"}

\* `_bridge.lights.get_device(d)` returns a light.
PrimaryHolds(b, d) ==
    /\ b # 0
    /\ \E i \in 1..Len(worker[b].items) : worker[b].items[i] = d
    /\ Account[d].class = "light"

Req(path, fc, value, level) ==
    [path |-> path, fc |-> fc, value |-> value, level |-> level]

FunctionClass(op) ==
    CASE op = "set_brightness" -> "brightness"
      [] op = "set_color" -> "color-rgb"
      [] op = "set_effect" -> "color-sequence"
      [] op = "set_color_temp" -> "color-temperature"
      [] op = "get_status" -> "state"
      [] OTHER -> "power"

PowerValue(op) == IF op = "turn_off" THEN "off" ELSE "on"

FinalReqUnnormalized(t) ==
    IF t.op \in PowerOps THEN Req("direct", "power", PowerValue(t.op), 0)
    ELSE IF t.op = "get_status" THEN Req("direct", "state", "get", 0)
    ELSE Req("direct", FunctionClass(t.op), "set", t.arg)

\* The request that ends the coroutine: lines 224, 245, 260, 263, 278, 293,
\* 308 and 347.
FinalReq(t) ==
    IF t.op \in PowerOps THEN Req("direct", "power", PowerValue(t.op), 0)
    ELSE IF t.op = "set_brightness" /\ t.arg = 0 THEN Req("direct", "power", "off", 0)
    ELSE IF t.op = "get_status" THEN Req("direct", "state", "get", 0)
    ELSE Req("direct", FunctionClass(t.op), "set", t.arg)

FirstStepValueOnly(t, b) == [t EXCEPT !.pc = "final", !.sent = <<FinalReq(t)>>]

\* The coroutine runs from its start to its first await.
FirstStep(t, b) ==
    IF t.op = "run_async"
    THEN [t EXCEPT !.pc = "done", !.outcome = Ok]
    ELSE IF t.op \in PowerOps /\ PrimaryHolds(b, t.dev)
    THEN [t EXCEPT !.pc = "primary",
                   !.sent = <<Req("primary", "power", PowerValue(t.op), 0)>>]
    ELSE IF t.op \in ValueOps \/ (t.op = "set_brightness" /\ t.arg # 0)
    THEN [t EXCEPT !.pc = "power", !.sent = <<Req("direct", "power", "on", 0)>>]
    ELSE [t EXCEPT !.pc = "final", !.sent = <<FinalReq(t)>>]

StartsAny(queue, k) == TRUE

\* call_soon_threadsafe is first in, first out: the coroutine started next on
\* a loop is the one queued first.
StartsNext(queue, k) ==
    \A j \in 1..(k - 1) : queue[j].loop = queue[k].loop => queue[j].pc # "queued"

TaskStart(k) ==
    /\ k \in 1..Len(tasks)
    /\ tasks[k].pc = "queued"
    /\ LoopFree(tasks[k].loop)
    /\ StartsNext(tasks, k)
    /\ tasks' = [tasks EXCEPT ![k] = FirstStep(tasks[k], bridge)]
    /\ UNCHANGED <<scoreVars, envVars, bridge, loop, thread, ready, readySets, catalogVars,
                   status_cache, worker, caller, deviceVars, now, calls, clean>>

\* The platform's state after it accepted request r for device d.
Applied(state, d, r) ==
    IF r.fc = "power" THEN [state EXCEPT ![d].on = (r.value = "on")]
    ELSE IF r.fc = "brightness" THEN [state EXCEPT ![d].brightness = r.level]
    ELSE state

Last(s) == s[Len(s)]

PrimarySurfaces(t) ==
    [t EXCEPT !.pc = "done", !.outcome = Raised("request failed")]

\* Lines 221-224 and 243-245: `except Exception: pass`, then the direct
\* request.
PrimaryRaised(t) == [t EXCEPT !.pc = "final", !.sent = Append(@, FinalReq(t))]

\* The history of a coroutine records how each of its requests was answered.
Answered(t, answer) == [t EXCEPT !.answers = Append(@, answer)]

\* The awaited request of coroutine k is answered: accepted ("ok": 200, 202 or
\* 204; the SDK call returning), refused ("fail": another status) or failed
\* with an exception ("raise").
TaskResponse(k, answer) ==
    /\ k \in 1..Len(tasks)
    /\ LoopFree(tasks[k].loop)
    /\ LET t == tasks[k] IN
        /\ t.pc \in {"primary", "power", "final"}
        /\ t.pc = "primary" => answer # "fail"
        /\ cloud' = IF answer = "ok" THEN Applied(cloud, t.dev, Last(t.sent))
                    ELSE cloud
        /\ tasks' = [tasks EXCEPT ![k] = Answered(
            CASE t.pc = "primary" /\ answer = "ok" ->
                    [t EXCEPT !.pc = "done", !.outcome = Ok]
              [] t.pc = "primary" /\ answer = "raise" -> PrimaryRaised(t)
              [] t.pc = "power" /\ answer \in {"ok", "fail"} ->
                    [t EXCEPT !.pc = "final", !.sent = Append(@, FinalReq(t))]
              [] t.pc = "power" /\ answer = "raise" ->
                    [t EXCEPT !.pc = "done", !.outcome = Raised("request failed")]
              [] t.pc = "final" /\ answer = "ok" ->
                    [t EXCEPT !.pc = "done", !.outcome =
                        IF t.op = "get_status" THEN Status(cloud[t.dev]) ELSE Ok]
              [] t.pc = "final" /\ answer = "fail" ->
                    [t EXCEPT !.pc = "done", !.outcome =
                        IF t.op = "get_status" THEN StatusErr("API fetch failed")
                        ELSE ApiFailed]
              [] OTHER ->
                    [t EXCEPT !.pc = "done", !.outcome = Raised("request failed")],
            answer)]
    /\ UNCHANGED <<scoreVars, envVars, bridge, loop, thread, ready, readySets, catalogVars,
                   status_cache, worker, caller, mem, now, calls, clean>>

(***************************************************************************)
(* get_status(device_id)                                                   *)
(***************************************************************************)
CacheFreshInclusive(cache, d, t) ==
    d \in DOMAIN cache /\ t - cache[d].ts <= CACHE_TTL

\* Line 322: `cached and (time.time() - cached["ts"]) < _CACHE_TTL`.
CacheFresh(cache, d, t) == d \in DOMAIN cache /\ t - cache[d].ts < CACHE_TTL

StatusReadPrimaryFirst(base, readOk) ==
    IF ~Resolved(base.dev)
    THEN Returns(base, UnknownDevice)
    ELSE IF PrimaryHolds(bridge, base.dev) /\ readOk
    THEN [base EXCEPT !.result = Status(mem[base.dev]), !.pc = "store"]
    ELSE IF CacheFresh(status_cache, base.dev, now)
    THEN Returns(base, status_cache[base.dev].data)
    ELSE IF bridge = 0
    THEN Returns(base, StatusErr("Not connected"))
    ELSE [base EXCEPT !.pc = "submit"]

\* Lines 316-343 up to the cache write, for a caller record whose dev is
\* the resolved id: serve a fresh entry, else read the SDK's in-memory state
\* (readOk: the read did not raise), else go on to the API read.
StatusRead(base, readOk) ==
    IF ~Resolved(base.dev)
    THEN Returns(base, UnknownDevice)
    ELSE IF CacheFresh(status_cache, base.dev, now)
    THEN Returns(base, status_cache[base.dev].data)
    ELSE IF bridge = 0
    THEN Returns(base, StatusErr("Not connected"))
    ELSE IF PrimaryHolds(bridge, base.dev) /\ readOk
    THEN [base EXCEPT !.result = Status(mem[base.dev]), !.pc = "store"]
    ELSE [base EXCEPT !.pc = "submit"]

GetStatusBegin(c) ==
    /\ MayBegin(c)
    /\ calls < MaxCalls
    /\ calls' = calls + 1
    /\ \E ident \in CallIdents, readOk \in BOOLEAN :
        LET resolved == get_device_id(devices, device_names, ident)
            base == [IdleCaller EXCEPT !.op = "get_status",
                        !.dev = resolved, !.preReady = ~ready]
        IN
        caller' = [caller EXCEPT ![c] = StatusRead(base, readOk)]
    /\ UNCHANGED <<scoreVars, envVars, bridge, loop, thread, ready, readySets, catalogVars,
                   status_cache, worker, tasks, deviceVars, now, clean>>

\* Lines 340-341 and 364-365: cache the snapshot and return it.
Store(c) ==
    /\ caller[c].pc = "store"
    /\ status_cache' = Put(status_cache, caller[c].dev,
                           [data |-> caller[c].result, ts |-> now])
    /\ caller' = [caller EXCEPT ![c] = Returns(@, caller[c].result)]
    /\ clean' = clean \ {caller[c].dev}
    /\ UNCHANGED <<scoreVars, envVars, bridge, loop, thread, ready, readySets, catalogVars,
                   worker, tasks, deviceVars, now, calls>>

(***************************************************************************)
(* get_all_status(), lines 368-378.  The for loop walks _devices in        *)
(* insertion order; each turn of the loop is one call of get_status, whose *)
(* steps are the ones above.                                               *)
(***************************************************************************)
\* The keys of the catalog in the order the discovery inserted them.
CatalogOrder(devs) == SelectSeq(RawListing, LAMBDA id : id \in DOMAIN devs)

\* What get_all_status returns at line 378.
AllStatus(entries) == [kind |-> "all", entries |-> entries]

\* Lines 370-371: the iterator over _devices.items() is created.
GetAllStatusBegin(c) ==
    /\ MayBegin(c)
    /\ calls < MaxCalls
    /\ calls' = calls + 1
    /\ caller' = [caller EXCEPT ![c] =
                    [IdleCaller EXCEPT !.op = "get_all_status", !.pc = "all_next",
                        !.todo = CatalogOrder(devices),
                        !.size = Cardinality(DOMAIN devices),
                        !.preReady = ~ready]]
    /\ UNCHANGED <<scoreVars, envVars, bridge, loop, thread, ready, readySets, catalogVars,
                   status_cache, worker, tasks, deviceVars, now, clean>>

\* Lines 371-378: the iterator yields the next item, or raises when the
\* discovery has inserted a key since the loop began, or is exhausted and the
\* report is returned.  For a light the call of get_status(dev_id) begins.
AllNext(c) ==
    /\ caller[c].pc = "all_next"
    /\ \E readOk \in BOOLEAN :
        LET rec == caller[c]
            id == Head(rec.todo)
        IN
        caller' = [caller EXCEPT ![c] =
            IF Cardinality(DOMAIN devices) # rec.size
            THEN [rec EXCEPT !.pc = "idle",
                    !.result = Raised("dictionary changed size during iteration")]
            ELSE IF rec.todo = << >>
            THEN [rec EXCEPT !.pc = "idle", !.result = AllStatus(rec.entries)]
            ELSE IF devices[id].type = "light"
            THEN StatusRead([rec EXCEPT !.fut = 0, !.got = 0,
                                !.dev = get_device_id(devices, device_names, id)],
                            readOk)
            ELSE [rec EXCEPT !.todo = Tail(@)]]
    /\ UNCHANGED <<scoreVars, envVars, bridge, loop, thread, ready, readySets, catalogVars,
                   status_cache, worker, tasks, deviceVars, now, calls, clean>>

(***************************************************************************)
(* get_devices() and what a caller does with the value it returns.         *)
(* Python dicts are objects: a value of the returned dict is a reference   *)
(* to a record object.  The record objects of the catalog are the values   *)
(* of `devices`, each named by the key it is stored under.                 *)
(***************************************************************************)
\* `dict(_devices)`, line 154: a new dict with the same keys, whose values
\* are the same record objects.
DictCopy(devs) == [id \in DOMAIN devs |-> id]

Listing(refs) == [kind |-> "devices", refs |-> refs]

\* get_devices, lines 152-154.
GetDevices(c) ==
    /\ MayBegin(c)
    /\ calls < MaxCalls
    /\ calls' = calls + 1
    /\ caller' = [caller EXCEPT ![c] =
            [IdleCaller EXCEPT !.op = "get_devices", !.preReady = ~ready,
                               !.result = Listing(DictCopy(devices))]]
    /\ UNCHANGED <<scoreVars, envVars, bridge, loop, thread, ready, readySets, catalogVars,
                   status_cache, worker, tasks, deviceVars, now, clean>>

HoldsListing(c) == Returned(c) /\ caller[c].op = "get_devices"

\* The caller removes a key from the dict it was handed: `del listing[id]`.
ListingRemove(c) ==
    /\ HoldsListing(c)
    /\ \E id \in DOMAIN caller[c].result.refs :
        caller' = [caller EXCEPT ![c].result =
                        Listing(Pop(caller[c].result.refs, id))]
    /\ UNCHANGED <<scoreVars, envVars, bridge, loop, thread, ready, readySets, catalogVars,
                   status_cache, worker, tasks, deviceVars, now, calls, clean>>

\* The caller adds a key with a record of its own: `listing["zzz"] = {...}`.
ListingAdd(c) ==
    /\ HoldsListing(c)
    /\ "zzz" \notin DOMAIN caller[c].result.refs
    /\ caller' = [caller EXCEPT ![c].result =
                        Listing(Put(caller[c].result.refs, "zzz", "zzz"))]
    /\ UNCHANGED <<scoreVars, envVars, bridge, loop, thread, ready, readySets, catalogVars,
                   status_cache, worker, tasks, deviceVars, now, calls, clean>>

\* The caller assigns a field of a record it was handed:
\* `listing[id]["name"] = "edited"` or `listing[id]["type"] = "fan"`.  The
\* assignment goes to the record object the value refers to.
RecordEdit(c) ==
    /\ HoldsListing(c)
    /\ \E id \in DOMAIN caller[c].result.refs :
        LET ref == caller[c].result.refs[id] IN
        /\ ref \in DOMAIN devices
        /\ \/ devices' = [devices EXCEPT ![ref].name = "edited"]
           \/ devices' = [devices EXCEPT ![ref].type = "fan"]
        /\ devices' # devices
    /\ UNCHANGED <<scoreVars, envVars, bridge, loop, thread, ready, readySets, device_names,
                   status_cache, worker, caller, tasks, deviceVars, now, calls,
                   clean>>

(***************************************************************************)
(* The environment.                                                        *)
(***************************************************************************)
\* The SDK refreshes its in-memory state from the platform.
Poll ==
    /\ bridge # 0
    /\ mem # cloud
    /\ mem' = cloud
    /\ UNCHANGED <<scoreVars, envVars, bridge, loop, thread, ready, readySets, catalogVars,
                   status_cache, worker, caller, tasks, cloud, now, calls, clean>>

\* Time passes.  The clock is read only against the age of a cache entry, so
\* its steps are taken while the cache holds one.
Tick ==
    /\ DOMAIN status_cache # {}
    /\ now + CACHE_TTL <= MaxTime
    /\ now' = now + CACHE_TTL
    /\ UNCHANGED <<scoreVars, envVars, bridge, loop, thread, ready, readySets, catalogVars,
                   status_cache, worker, caller, tasks, deviceVars, calls, clean>>

\* Time passes, one second at a time.
TickOne ==
    /\ DOMAIN status_cache # {}
    /\ now < MaxTime
    /\ now' = now + 1
    /\ UNCHANGED <<scoreVars, envVars, bridge, loop, thread, ready, readySets, catalogVars,
                   status_cache, worker, caller, tasks, deviceVars, calls, clean>>

(***************************************************************************)
(* The service: the main thread calls start(); request thread c1 calls any *)
(* function of the module while request thread c2 reads a status or turns  *)
(* a light off.                                                            *)
(***************************************************************************)
Next ==
    \/ StartCheck("main")
    \/ \E c \in Callers : StartSpawn(c)
    \/ \E c \in Callers : StartReturn(c)
    \/ \E t \in Threads : RunLoop(t)
    \/ \E t \in Threads : InitDegraded(t)
    \/ \E t \in Threads : InitCreate(t)
    \/ \E t \in Threads : InitDone(t)
    \/ \E t \in Threads : Discover(t)
    \/ \E t \in Threads : DiscoverNone(t)
    \/ \E t \in Threads : DiscoverReady(t)
    \/ \E t \in Threads : FallbackListed(t)
    \/ \E t \in Threads : FallbackFailed(t)
    \/ \E t \in Threads : FallbackFill(t)
    \/ \E t \in Threads : FallbackReady(t)
    \/ ControlBegin("c1", MutatingOps)
    \/ ControlBegin("c2", {"turn_off"})
    \/ \E c \in {"c1", "c2"} : GetStatusBegin(c)
    \/ RunAsyncBegin("c1")
    \/ \E c \in Callers : Invalidate(c)
    \/ \E c \in Callers : Submit(c)
    \/ \E c \in Callers : WaitDone(c)
    \/ \E c \in Callers : WaitTimeout(c)
    \/ \E c \in Callers : Store(c)
    \/ \E k \in 1..MaxCalls : TaskStart(k)
    \/ \E k \in 1..MaxCalls, answer \in {"ok", "fail", "raise"} : TaskResponse(k, answer)
    \/ Poll
    \/ Tick

Spec == Init /\ [][Next]_vars

(***************************************************************************)
(* Startup: the main thread and request thread c1 both call start(), while *)
(* request thread c2 hands work to the bridge.                             *)
(***************************************************************************)
NextStart ==
    \/ \E c \in {"main", "c1"} : StartCheck(c)
    \/ \E c \in Callers : StartSpawn(c)
    \/ \E c \in Callers : StartReturn(c)
    \/ \E t \in Threads : RunLoop(t)
    \/ \E t \in Threads : InitDegraded(t)
    \/ \E t \in Threads : InitCreate(t)
    \/ \E t \in Threads : InitDone(t)
    \/ \E t \in Threads : Discover(t)
    \/ \E t \in Threads : DiscoverNone(t)
    \/ \E t \in Threads : DiscoverReady(t)
    \/ \E t \in Threads : FallbackListed(t)
    \/ \E t \in Threads : FallbackFailed(t)
    \/ \E t \in Threads : FallbackFill(t)
    \/ \E t \in Threads : FallbackReady(t)
    \/ RunAsyncBegin("c2")
    \/ Submit("c2")
    \/ WaitDone("c2")
    \/ WaitTimeout("c2")
    \/ \E k \in 1..MaxCalls : TaskStart(k)

SpecStart == Init /\ [][NextStart]_vars

(***************************************************************************)
(* Listing: the main thread calls start(); request threads c1 and c2 list  *)
(* the devices and change the values they were handed.                     *)
(***************************************************************************)
NextList ==
    \/ StartCheck("main")
    \/ \E c \in Callers : StartSpawn(c)
    \/ \E c \in Callers : StartReturn(c)
    \/ \E t \in Threads : RunLoop(t)
    \/ \E t \in Threads : InitDegraded(t)
    \/ \E t \in Threads : InitCreate(t)
    \/ \E t \in Threads : InitDone(t)
    \/ \E t \in Threads : Discover(t)
    \/ \E t \in Threads : DiscoverNone(t)
    \/ \E t \in Threads : DiscoverReady(t)
    \/ \E t \in Threads : FallbackListed(t)
    \/ \E t \in Threads : FallbackFailed(t)
    \/ \E t \in Threads : FallbackFill(t)
    \/ \E t \in Threads : FallbackReady(t)
    \/ \E c \in {"c1", "c2"} : GetDevices(c)
    \/ \E c \in {"c1", "c2"} : ListingRemove(c)
    \/ \E c \in {"c1", "c2"} : ListingAdd(c)
    \/ \E c \in {"c1", "c2"} : RecordEdit(c)

SpecList == Init /\ [][NextList]_vars

(***************************************************************************)
(* Status reads against the clock: the main thread calls start(); request  *)
(* threads c1 and c2 read the status while the seconds pass.               *)
(***************************************************************************)
NextCache ==
    \/ StartCheck("main")
    \/ \E c \in Callers : StartSpawn(c)
    \/ \E c \in Callers : StartReturn(c)
    \/ \E t \in Threads : RunLoop(t)
    \/ \E t \in Threads : InitDegraded(t)
    \/ \E t \in Threads : InitCreate(t)
    \/ \E t \in Threads : InitDone(t)
    \/ \E t \in Threads : Discover(t)
    \/ \E t \in Threads : DiscoverNone(t)
    \/ \E t \in Threads : DiscoverReady(t)
    \/ \E t \in Threads : FallbackListed(t)
    \/ \E t \in Threads : FallbackFailed(t)
    \/ \E t \in Threads : FallbackFill(t)
    \/ \E t \in Threads : FallbackReady(t)
    \/ \E c \in {"c1", "c2"} : GetStatusBegin(c)
    \/ \E c \in Callers : Submit(c)
    \/ \E c \in Callers : WaitDone(c)
    \/ \E c \in Callers : WaitTimeout(c)
    \/ \E c \in Callers : Store(c)
    \/ \E k \in 1..MaxCalls : TaskStart(k)
    \/ \E k \in 1..MaxCalls, answer \in {"ok", "fail", "raise"} : TaskResponse(k, answer)
    \/ TickOne

SpecCache == Init /\ [][NextCache]_vars

(***************************************************************************)
(* The status report: the main thread calls start(); request thread c1     *)
(* asks for the report of all lights.                                      *)
(***************************************************************************)
NextAll ==
    \/ StartCheck("main")
    \/ \E c \in Callers : StartSpawn(c)
    \/ \E c \in Callers : StartReturn(c)
    \/ \E t \in Threads : RunLoop(t)
    \/ \E t \in Threads : InitDegraded(t)
    \/ \E t \in Threads : InitCreate(t)
    \/ \E t \in Threads : InitDone(t)
    \/ \E t \in Threads : Discover(t)
    \/ \E t \in Threads : DiscoverNone(t)
    \/ \E t \in Threads : DiscoverReady(t)
    \/ \E t \in Threads : FallbackListed(t)
    \/ \E t \in Threads : FallbackFailed(t)
    \/ \E t \in Threads : FallbackFill(t)
    \/ \E t \in Threads : FallbackReady(t)
    \/ GetAllStatusBegin("c1")
    \/ AllNext("c1")
    \/ \E c \in Callers : Submit(c)
    \/ \E c \in Callers : WaitDone(c)
    \/ \E c \in Callers : WaitTimeout(c)
    \/ \E c \in Callers : Store(c)
    \/ \E k \in DOMAIN tasks : TaskStart(k)
    \/ \E k \in DOMAIN tasks, answer \in {"ok", "fail", "raise"} : TaskResponse(k, answer)

SpecAll == Init /\ [][NextAll]_vars

\* One step of background thread t in _run_loop / _init_bridge.
WorkerStep(t) ==
    \/ RunLoop(t)
    \/ InitDegraded(t)
    \/ InitCreate(t)
    \/ InitDone(t)
    \/ Discover(t)
    \/ DiscoverNone(t)
    \/ DiscoverReady(t)
    \/ FallbackListed(t)
    \/ FallbackFailed(t)
    \/ FallbackFill(t)
    \/ FallbackReady(t)

\* A started thread is scheduled, and each await of _init_bridge ends: the
\* initialization after 20 s at the latest (line 70), the listing request
\* with a response or an exception (lines 93-112).
SpecStartFair == SpecStart /\ \A t \in Threads : WF_vars(WorkerStep(t))

(***************************************************************************)
(* Commands against the clock of the caller: the main thread calls         *)
(* start(); request thread c1 issues commands and may stop waiting for     *)
(* them.                                                                   *)
(***************************************************************************)
NextWork ==
    \/ StartCheck("main")
    \/ \E c \in Callers : StartSpawn(c)
    \/ \E c \in Callers : StartReturn(c)
    \/ \E t \in Threads : WorkerStep(t)
    \/ ControlBegin("c1", MutatingOps)
    \/ \E c \in Callers : Invalidate(c)
    \/ \E c \in Callers : Submit(c)
    \/ \E c \in Callers : WaitDone(c)
    \/ \E c \in Callers : WaitTimeout(c)
    \/ \E k \in 1..MaxCalls : TaskStart(k)
    \/ \E k \in 1..MaxCalls, answer \in {"ok", "fail", "raise"} : TaskResponse(k, answer)
    \/ Poll

SpecWork == Init /\ [][NextWork]_vars

\* Coroutine k gets an answer to the request it awaits.
TaskAnswered(k) == \E answer \in {"ok", "fail", "raise"} : TaskResponse(k, answer)

\* The background thread is scheduled, the loop starts what is queued on it,
\* and every request of a coroutine is answered in the end.
SpecWorkFair ==
    /\ SpecWork
    /\ \A t \in Threads : WF_vars(WorkerStep(t))
    /\ \A k \in 1..MaxCalls : WF_vars(TaskStart(k)) /\ WF_vars(TaskAnswered(k))

(***************************************************************************)
(* light_controller.apply_score_brightness, lines 299-325, called by the   *)
(* alert handler of score_display.py with the scores of the one live game. *)
(***************************************************************************)
Min(a, b) == IF a < b THEN a ELSE b
Max(a, b) == IF a > b THEN a ELSE b
Abs(n) == IF n < 0 THEN -n ELSE n

Scores == 0..MaxScore

\* Level of each Lutron light before a sync.
LutronLevels == {0, 50}

\* Lines 303-317: the two percentages for a pair of scores.
ScoreBrightness(home, away) ==
    LET delta == home - away IN
    IF delta > 0
    THEN [parlor |-> Min(100, 20 + delta * 4),
          octagon |-> Max(5, 50 - delta * 4), delta |-> delta]
    ELSE IF delta < 0
    THEN [parlor |-> Max(5, 50 - Abs(delta) * 4),
          octagon |-> Min(100, 20 + Abs(delta) * 4), delta |-> delta]
    ELSE [parlor |-> 50, octagon |-> 50, delta |-> delta]

\* Lines 321-325: what apply_score_brightness returns.
ScoreSynced(pct) ==
    [kind |-> "score", parlor |-> pct.parlor, octagon |-> pct.octagon,
     delta |-> pct.delta]

\* _lutron_command, lines 129-132: level 0 switches the light off.
LutronSet(levels, light, brightness) ==
    [levels EXCEPT ![light] = IF brightness = 0 THEN 0 ELSE brightness]

\* apply_score_brightness(home_score, away_score).  Each set_light drops the
\* cached status of its light (line 225) and then runs the Lutron command
\* (line 229); reached is the number of commands that went through before
\* the bridge connection raised, 2 when both did.
SetLights(home, away, reached) ==
    LET pct == ScoreBrightness(home, away)
        afterParlor == IF reached >= 1
                       THEN LutronSet(lutron, "parlor", pct.parlor)
                       ELSE lutron
    IN
    /\ lutron' = IF reached = 2
                  THEN LutronSet(afterParlor, "octagon", pct.octagon)
                  ELSE afterParlor
    /\ light_cache' = IF reached = 0
                       THEN light_cache \ {"parlor"}
                       ELSE light_cache \ {"parlor", "octagon"}
    /\ score_sync' = IF reached = 2
                      THEN ScoreSynced(pct)
                      ELSE Raised("lutron")

ApplyScoreBrightness ==
    /\ score_sync = NoResult
    /\ \E reached \in 0..2 : SetLights(home_score, away_score, reached)
    /\ UNCHANGED <<home_score, away_score, alertVars, envVars, bridge, loop,
                   thread, ready, readySets, catalogVars, status_cache, worker,
                   caller, tasks, deviceVars, now, calls, clean>>

\* The state in which the alert handler calls the sync: any pair of scores,
\* any levels of the two lights, any of them cached.
InitScore ==
    /\ HubspaceInit
    /\ home_score \in Scores
    /\ away_score \in Scores
    /\ lutron \in [LutronLights -> LutronLevels]
    /\ light_cache \in SUBSET LutronLights
    /\ score_sync = NoResult
    /\ AlertsInit

NextScore == ApplyScoreBrightness

SpecScore == InitScore /\ [][NextScore]_vars

(***************************************************************************)
(* score_display.py: the views /score-update (lines 211-245) and           *)
(* /test-alert (lines 256-285).  The Flask server runs each request on a   *)
(* thread of its own, so the statements of two requests interleave; the    *)
(* reads and writes of the globals alert_counter and alerts are separate   *)
(* steps.                                                                  *)
(***************************************************************************)
hubVars == <<envVars, bridge, loop, thread, ready, readySets, catalogVars,
             status_cache, worker, caller, tasks, deviceVars, now, calls, clean>>

\* game_id values of the tracker's alerts.
Games == {"g1", "g2"}

\* <<home_score, away_score>> of the tracker's alerts.
AlertScores == {<<0, 0>>, <<2, 0>>}

\* deque(maxlen=50).appendleft, lines 32 and 223: the oldest alert drops off.
AppendLeft(q, a) ==
    LET grown == <<a>> \o q IN
    IF Len(grown) > ALERTS_MAXLEN THEN SubSeq(grown, 1, ALERTS_MAXLEN) ELSE grown

\* Lines 235-238: the game ids of the stored alerts that are not FINAL.
live_games(q) == {q[i].game_id : i \in {j \in 1..Len(q) : ~q[j].final}}

\* jsonify({"status": "ok", "alert_id": ...}), lines 245 and 285.
AlertOk(id) == [kind |-> "ok", alert_id |-> id]

\* The view is left with a response or an exception; its locals are gone.
Left(h, response) ==
    [h EXCEPT !.pc = "idle", !.tmp = 0, !.home = 0, !.away = 0,
              !.data = IdleHandler.data, !.response = response]

\* score_update, lines 215-218: the body is read; without one the view
\* answers 400.
ScoreUpdateBegin(r) ==
    /\ handler[r].pc = "idle"
    /\ posted < MaxAlerts
    /\ posted' = posted + 1
    /\ \E hasBody \in BOOLEAN, game \in Games, final \in BOOLEAN,
          score \in AlertScores :
        handler' = [handler EXCEPT ![r] =
            IF hasBody
            THEN [IdleHandler EXCEPT !.pc = "load", !.view = "score_update",
                    !.data = [alert_id |-> 0, game_id |-> game, final |-> final],
                    !.home = score[1], !.away = score[2]]
            ELSE [IdleHandler EXCEPT !.view = "score_update",
                    !.response = Err("No JSON body")]]
    /\ UNCHANGED <<lightVars, alert_counter, alerts, hubVars>>

\* test_alert, line 259.
TestAlertBegin(r) ==
    /\ handler[r].pc = "idle"
    /\ posted < MaxAlerts
    /\ posted' = posted + 1
    /\ handler' = [handler EXCEPT ![r] =
            [IdleHandler EXCEPT !.pc = "load", !.view = "test_alert",
                !.data = [alert_id |-> 0, game_id |-> "test-001", final |-> FALSE],
                !.home = 72, !.away = 70]]
    /\ UNCHANGED <<lightVars, alert_counter, alerts, hubVars>>

\* `alert_counter += 1`, lines 219 and 260: the global is loaded ...
CounterLoad(r) ==
    /\ handler[r].pc = "load"
    /\ handler' = [handler EXCEPT ![r].tmp = alert_counter, ![r].pc = "add"]
    /\ UNCHANGED <<lightVars, alert_counter, alerts, posted, hubVars>>

\* ... and the sum is stored.
CounterStore(r) ==
    /\ handler[r].pc = "add"
    /\ alert_counter' = handler[r].tmp + 1
    /\ handler' = [handler EXCEPT ![r].pc = "stamp"]
    /\ UNCHANGED <<lightVars, alerts, posted, hubVars>>

\* `data["alert_id"] = alert_counter`, line 220; `"alert_id": alert_counter`,
\* line 263.
Stamp(r) ==
    /\ handler[r].pc = "stamp"
    /\ handler' = [handler EXCEPT ![r].data.alert_id = alert_counter,
                                  ![r].stamped = alert_counter,
                                  ![r].pc = "append"]
    /\ UNCHANGED <<lightVars, alert_counter, alerts, posted, hubVars>>

\* `alerts.appendleft(...)`, lines 223 and 283; line 233 for the way on.
Store_alert(r) ==
    /\ handler[r].pc = "append"
    /\ alerts' = AppendLeft(alerts, handler[r].data)
    /\ handler' = [handler EXCEPT ![r].pc =
            IF handler[r].view = "score_update" /\ ~handler[r].data.final
            THEN "sync" ELSE "respond"]
    /\ UNCHANGED <<lightVars, alert_counter, posted, hubVars>>

\* score_update, lines 234-243: with one live game the lights follow the
\* score of this alert.  An exception of the Lutron command leaves the view
\* (the server answers 500).
Sync(r) ==
    /\ handler[r].pc = "sync"
    /\ IF Cardinality(live_games(alerts)) = 1
       THEN \E reached \in 0..2 :
            /\ home_score' = handler[r].home
            /\ away_score' = handler[r].away
            /\ SetLights(handler[r].home, handler[r].away, reached)
            /\ handler' = [handler EXCEPT ![r] =
                    IF reached = 2
                    THEN [@ EXCEPT !.applied = TRUE, !.pc = "respond"]
                    ELSE Left([@ EXCEPT !.applied = TRUE],
                              Raised("lutron"))]
       ELSE /\ handler' = [handler EXCEPT ![r].pc = "respond"]
            /\ UNCHANGED lightVars
    /\ UNCHANGED <<alert_counter, alerts, posted, hubVars>>

\* `return jsonify({"status": "ok", "alert_id": alert_counter})`, lines 245
\* and 285.
Respond(r) ==
    /\ handler[r].pc = "respond"
    /\ handler' = [handler EXCEPT ![r] = Left(@, AlertOk(alert_counter))]
    /\ UNCHANGED <<lightVars, alert_counter, alerts, posted, hubVars>>

NextAlerts ==
    \/ \E r \in Requests : ScoreUpdateBegin(r)
    \/ \E r \in Requests : TestAlertBegin(r)
    \/ \E r \in Requests : CounterLoad(r)
    \/ \E r \in Requests : CounterStore(r)
    \/ \E r \in Requests : Stamp(r)
    \/ \E r \in Requests : Store_alert(r)
    \/ \E r \in Requests : Sync(r)
    \/ \E r \in Requests : Respond(r)

\* The display starts with the Hubspace credentials and SDK in place.
InitAlerts == Init /\ credsPresent /\ hasAioafero

SpecAlerts == InitAlerts /\ [][NextAlerts]_vars

(***************************************************************************)
(* Properties.                                                             *)
(***************************************************************************)
TaskIds == 1..Len(tasks)
InFlight(k) == tasks[k].pc \in {"primary", "power", "final"}
BridgesCreated ==
    {t \in Threads : worker[t].pc \in {"init", "discover", "fallback",
                                       "fallback_fill", "idle"}}

\* C1: a mutating operation has removed the status cache entry of its device
\* before its coroutine issues the first primary or secondary request.
CacheInvalidatedBeforeRequest ==
    \A k \in TaskIds :
        tasks[k].op \in MutatingOps /\ tasks[k].sent # << >> => tasks[k].popped

\* C1 witness: an entry was cached when the operation invalidated it, and the
\* operation's first request has been issued.
CachedEntryInvalidatedThenRequest ==
    \E k \in TaskIds :
        /\ tasks[k].op \in MutatingOps
        /\ tasks[k].sent # << >>
        /\ tasks[k].cached
        /\ tasks[k].popped

\* C2: after a mutating call on d returned {ok: true}, the status cache holds
\* no entry for d until the next status read stores one.
NoEntryAfterMutation == \A d \in clean : d \notin DOMAIN status_cache

AtMostOneWorkerRunning == Cardinality({t \in Threads : IsAlive(t)}) <= 1

\* C5: over the process lifetime at most one background thread is spawned
\* and at most one bridge instance is created.
OneContextOneSession ==
    Cardinality(Spawned) <= 1 /\ Cardinality(BridgesCreated) <= 1

\* C6 (as claimed): every call that handed work to the bridge and returned
\* was handed the outcome of that work, exactly once.
OutcomeHandedBackExactlyOnce ==
    \A c \in Callers :
        Returned(c) /\ caller[c].fut # 0 => tasks[caller[c].fut].delivered = 1

\* C6 (amended): the outcome of a unit of work is handed back at most once,
\* only after the work finished, and only to the caller that submitted it.
OutcomeHandedBackAtMostOnceToSubmitter ==
    /\ \A k \in TaskIds :
        /\ tasks[k].delivered <= 1
        /\ tasks[k].delivered = 1 => tasks[k].pc = "done"
    /\ \A c \in Callers :
        caller[c].got # 0 =>
            /\ caller[c].got = caller[c].fut
            /\ tasks[caller[c].got].owner = c

\* C6 witness: two callers have each been handed the outcome of their work.
TwoCallersServed == caller["c1"].got # 0 /\ caller["c2"].got # 0

\* C7: a mutating call returns {ok: true} or {error: <string>} and never
\* raises; a caller waiting for its work can always return.
MutatingCallsReturnOkOrError ==
    \A c \in Callers :
        /\ Returned(c) /\ caller[c].op \in MutatingOps =>
            \/ caller[c].result = Ok
            \/ caller[c].result.kind = "error" /\ HasError(caller[c].result)
        /\ caller[c].pc = "wait" =>
            tasks[caller[c].fut].pc = "done" \/ ENABLED WaitTimeout(c)

\* C7 witness: the work of a mutating call raised and the caller got an error.
RaisedWorkReturnedAsError ==
    \E c \in Callers :
        /\ Returned(c)
        /\ caller[c].op \in MutatingOps
        /\ caller[c].result = Err("request failed")

\* C8: with the loop or the bridge not initialized, _run_async returns
\* "Hubspace not connected" at once: it queues nothing and does not wait.
NotConnectedReturnsAtOnce ==
    [][\A c \in Callers :
        caller[c].pc = "submit" /\ (loop = 0 \/ bridge = 0)
            /\ caller'[c] # caller[c]
        => /\ tasks' = tasks
           /\ caller'[c].pc = "idle"
           /\ caller'[c].result = NotConnected]_vars

\* C8 witness: a direct use of the bridge returned "Hubspace not connected".
RunAsyncRefused ==
    \E c \in Callers :
        /\ Returned(c)
        /\ caller[c].op = "run_async"
        /\ caller[c].result = NotConnected
        /\ caller[c].fut = 0

\* C9: a control call made before startup has completed returns an error
\* result.
EarlyControlCallFails ==
    \A c \in Callers :
        Returned(c) /\ caller[c].op \in MutatingOps /\ caller[c].preReady
            => caller[c].result.kind = "error"

\* C10: without credentials, every control command made after startup fails
\* with the "not connected" error.
DegradedCommandsNotConnected ==
    \A c \in Callers :
        /\ ~credsPresent
        /\ ready
        /\ Returned(c)
        /\ caller[c].op \in MutatingOps
        /\ ~caller[c].preReady
        => caller[c].result = NotConnected

\* A worker that has been through _init_bridge up to its return (line 59 or
\* 64) or its idle loop (line 120).
Latched(t) == worker[t].pc \in {"exited", "idle"}

\* C11 (as claimed): on every startup outcome the worker goes through
\* discovery before it latches the ready event.
LatchesOnlyAfterDiscovery ==
    \A t \in Threads : Latched(t) => worker[t].pc = "idle"

\* C11 (amended): whatever the outcome of each startup stage, a started
\* worker does not stop short: it ends startup with the ready event set.
StartupAlwaysLatches ==
    \A t \in Threads : (worker[t].pc = "spawned") ~> (Latched(t) /\ ready)

\* C11 witness: discovery found nothing, the fallback listing failed, and the
\* worker latched the event with an empty catalog.
LatchedAfterFailedFallback ==
    \E t \in Threads :
        /\ worker[t].pc = "idle"
        /\ DOMAIN devices = {}
        /\ ready
        /\ readySets = 1

\* C12: the ready event is one-shot: over an execution _ready.set() is
\* called at most once, also when start() is called again after the worker
\* has exited.
ReadySetOnce == readySets <= 1

\* C13: whenever the SDK's light controller holds the device of a control
\* operation, the first request of the operation goes through the SDK; a
\* direct request follows only a primary attempt.
PrimaryTriedFirst ==
    \A k \in TaskIds :
        /\ tasks[k].op \in MutatingOps
        /\ tasks[k].sent # << >>
        /\ PrimaryHolds(bridge, tasks[k].dev)
        => tasks[k].sent[1].path = "primary"

\* The coroutine of turn_on / turn_off went to the direct request: the SDK
\* did not hold the device, or its call raised.
SecondaryUsed(t) == t.sent # << >> /\ Last(t.sent).path = "direct"

\* C14 (as claimed): a turn_on / turn_off call whose coroutine used the
\* direct request reports {ok: true} exactly when that request was accepted.
PowerCallOkIffSecondaryOk ==
    \A c \in Callers :
        /\ Returned(c)
        /\ caller[c].op \in PowerOps
        /\ caller[c].fut # 0
        /\ tasks[caller[c].fut].pc = "done"
        /\ SecondaryUsed(tasks[caller[c].fut])
        => (caller[c].result = Ok <=> Last(tasks[caller[c].fut].answers) = "ok")

\* C14 (amended): when the SDK call raises, the direct power request is sent
\* next; the coroutine's outcome is {ok: true} exactly when the direct
\* request was accepted; a call that was handed the outcome reports it, with
\* no trace of the SDK failure; a call that was not reports the timeout.
PowerFallsBackToSecondary ==
    /\ \A k \in TaskIds :
        LET t == tasks[k] IN
        t.op \in PowerOps =>
            /\ t.answers # << >> /\ t.sent[1].path = "primary"
                    /\ t.answers[1] = "raise"
                => /\ Len(t.sent) = 2
                   /\ t.sent[2] = Req("direct", "power", PowerValue(t.op), 0)
            /\ t.pc = "done" /\ SecondaryUsed(t)
                => /\ t.outcome = Ok <=> Last(t.answers) = "ok"
                   /\ t.outcome \in {Ok, ApiFailed, Raised("request failed")}
    /\ \A c \in Callers :
        Returned(c) /\ caller[c].op \in PowerOps /\ caller[c].fut # 0 =>
            IF caller[c].got # 0
            THEN LET t == tasks[caller[c].got] IN
                 /\ t.pc = "done"
                 /\ caller[c].result = RunAsyncResult(t.outcome)
                 /\ SecondaryUsed(t) =>
                        (caller[c].result = Ok <=> Last(t.answers) = "ok")
            ELSE caller[c].result = TimedOut

\* C14 witness: the SDK call raised, the direct request was accepted, and the
\* call returned {ok: true}.
PrimaryRaisedSecondaryOk ==
    \E c \in Callers :
        /\ Returned(c)
        /\ caller[c].op \in PowerOps
        /\ caller[c].got # 0
        /\ tasks[caller[c].got].answers = <<"raise", "ok">>
        /\ caller[c].result = Ok

\* C15: when a mutating call on d returns the error its work ended with (the
\* SDK path and the direct request failed), the status cache holds no entry
\* for d, so the next status read of d is a fresh one.
FailedMutationLeavesNoEntry ==
    [][\A c \in Callers :
        /\ caller[c].pc = "wait"
        /\ caller[c].op \in MutatingOps
        /\ caller'[c].pc = "idle"
        /\ caller'[c].got # 0
        /\ caller'[c].result.kind = "error"
        => caller[c].dev \notin DOMAIN status_cache']_vars

\* C16: a control or status call whose identifier does not resolve returns
\* "Unknown device" in its first step: it submits no work, issues no request
\* and leaves the status cache as it was.
UnknownDeviceFailsFast ==
    [][\A c \in Callers :
        /\ caller[c].pc = "idle"
        /\ caller'[c] # caller[c]
        /\ caller'[c].op \in MutatingOps \cup {"get_status"}
        /\ caller'[c].dev = NoDevice
        => /\ caller'[c].pc = "idle"
           /\ caller'[c].result = UnknownDevice
           /\ caller'[c].fut = 0
           /\ tasks' = tasks
           /\ status_cache' = status_cache]_vars

\* C16 witness: with devices catalogued and a status cached, a control call
\* with an unknown identifier returned "Unknown device".
UnknownDeviceWhileCatalogued ==
    \E c \in Callers :
        /\ Returned(c)
        /\ caller[c].op \in MutatingOps
        /\ caller[c].result = UnknownDevice
        /\ "abc" \in DOMAIN devices
        /\ "abc" \in DOMAIN status_cache

\* Operations that set a value after switching the light on: lines 262-263,
\* 277-278, 292-293 and 307-308.
SetsValue(t) == t.op \in ValueOps \/ (t.op = "set_brightness" /\ t.arg # 0)

PowerOnReq == Req("direct", "power", "on", 0)

\* C17: set_brightness(N > 0), set_color, set_effect and set_color_temp act
\* on the catalogued id an identifier resolves to (a name in any case
\* included); the first request is a direct power-on, and the value-set is a
\* second request, issued only after the power-on has been answered.
PowerOnCompletesBeforeValueSet ==
    /\ "kitchen light" \in DOMAIN device_names
        => get_device_id(devices, device_names, "KITCHEN LIGHT") = "abc"
    /\ \A k \in TaskIds :
        LET t == tasks[k] IN
        SetsValue(t) =>
            /\ t.dev \in DOMAIN devices
            /\ Len(t.sent) <= 2
            /\ t.sent # << >> => t.sent[1] = PowerOnReq
            /\ Len(t.sent) = 2 =>
                /\ t.sent[2] = Req("direct", FunctionClass(t.op), "set", t.arg)
                /\ t.answers # << >>
                /\ t.answers[1] \in {"ok", "fail"}
            /\ t.pc = "power" => t.sent = <<PowerOnReq>> /\ t.answers = << >>

\* C17 witness: set_brightness(50) on abc issued the power-on, had it
\* accepted, and then issued brightness=50.
PowerOnThenBrightness ==
    \E k \in TaskIds :
        /\ tasks[k].op = "set_brightness"
        /\ tasks[k].dev = "abc"
        /\ tasks[k].sent = <<PowerOnReq, Req("direct", "brightness", "set", 50)>>
        /\ tasks[k].answers = <<"ok">>

\* C18: in set_brightness(d, N > 0), once the power-on request has been
\* answered in any way, the brightness-set request is issued, and the
\* outcome is that of the brightness-set alone.
BrightnessSetAlwaysAttempted ==
    \A k \in TaskIds :
        LET t == tasks[k] IN
        t.op = "set_brightness" /\ t.arg # 0 /\ t.answers # << >> =>
            /\ Len(t.sent) = 2
            /\ t.sent[2] = Req("direct", "brightness", "set", t.arg)
            /\ t.pc = "done" => Len(t.answers) = 2

PowerOffReq == Req("direct", "power", "off", 0)

\* C19 (as claimed): a set_brightness(d, 0) call reports {ok: true} exactly
\* when its power-off request was accepted.
BrightnessZeroOkIffPowerOffOk ==
    \A c \in Callers :
        /\ Returned(c)
        /\ caller[c].op = "set_brightness"
        /\ caller[c].arg = 0
        /\ caller[c].fut # 0
        /\ tasks[caller[c].fut].pc = "done"
        => (caller[c].result = Ok <=> tasks[caller[c].fut].answers = <<"ok">>)

\* C19 (amended): set_brightness(d, 0) issues one request, a power-off, and
\* no power-on or brightness-set; its work yields {ok: true} exactly when the
\* power-off was accepted; a call that was handed the outcome reports it, a
\* call that was not reports the timeout.
BrightnessZeroIsPowerOff ==
    /\ \A k \in TaskIds :
        LET t == tasks[k] IN
        t.op = "set_brightness" /\ t.arg = 0 =>
            /\ t.sent \in {<< >>, <<PowerOffReq>>}
            /\ t.pc = "done" =>
                /\ t.sent = <<PowerOffReq>>
                /\ t.outcome = Ok <=> t.answers = <<"ok">>
    /\ \A c \in Callers :
        /\ Returned(c)
        /\ caller[c].op = "set_brightness"
        /\ caller[c].arg = 0
        /\ caller[c].fut # 0
        => IF caller[c].got # 0
           THEN LET t == tasks[caller[c].got] IN
                /\ caller[c].result = RunAsyncResult(t.outcome)
                /\ caller[c].result = Ok <=> t.answers = <<"ok">>
           ELSE caller[c].result = TimedOut

\* C19 witness: set_brightness(abc, 0) sent a power-off only and returned
\* {ok: true}.
BrightnessZeroReturnedOk ==
    \E c \in Callers :
        /\ Returned(c)
        /\ caller[c].op = "set_brightness"
        /\ caller[c].arg = 0
        /\ caller[c].got # 0
        /\ tasks[caller[c].got].sent = <<PowerOffReq>>
        /\ caller[c].result = Ok

\* C20: once set_brightness(d, 0) has returned {ok: true}, a status read of
\* d that begins afterwards and answers from the cache or from the SDK's
\* in-memory state reports on=false and brightness=0.
StatusAfterBrightnessZeroIsOff ==
    [][\A c, c0 \in Callers :
        /\ Returned(c0)
        /\ caller[c0].op = "set_brightness"
        /\ caller[c0].arg = 0
        /\ caller[c0].result = Ok
        /\ caller[c].pc = "idle"
        /\ caller'[c] # caller[c]
        /\ caller'[c].op = "get_status"
        /\ caller'[c].dev = caller[c0].dev
        /\ caller'[c].result.kind = "status"
        => /\ caller'[c].result.on = FALSE
           /\ caller'[c].result.brightness = 0]_vars

\* The worker that built the catalog has finished discovery.
CatalogBuilt == \E t \in Threads : worker[t].pc = "idle"

\* C21: once discovery has built the catalog, every device in it resolves to
\* its own id both by its id and by its lower-cased name.
NameAndIdResolveToId ==
    CatalogBuilt =>
        \A id \in DOMAIN devices :
            /\ get_device_id(devices, device_names, id) = id
            /\ get_device_id(devices, device_names, Lower(devices[id].name)) = id

\* Strings handed to get_device_id: the identifiers callers use, every id of
\* the account, every display name as written and lower-cased.
Probes ==
    CallIdents \cup AccountIds \cup {Account[d].name : d \in AccountIds}
        \cup {Lower(Account[d].name) : d \in AccountIds}

\* C22: get_device_id returns a known id unchanged; otherwise the id indexed
\* under the lower-cased input; nothing for a string that is neither an id
\* of the catalog nor, ignoring case, a name in it; and never an id that is
\* not in the catalog.
ResolveIsIdThenNameElseNothing ==
    \A x \in Probes :
        LET r == get_device_id(devices, device_names, x) IN
        /\ x \in DOMAIN devices => r = x
        /\ x \notin DOMAIN devices /\ Lower(x) \in DOMAIN device_names
            => r = device_names[Lower(x)]
        /\ /\ x \notin DOMAIN devices
           /\ \A id \in DOMAIN devices : Lower(devices[id].name) # Lower(x)
           => r = NoDevice
        /\ r # NoDevice => r \in DOMAIN devices

\* C22 witness: with the catalog built, one call resolved its identifier to
\* abc, another call's identifier did not resolve, and a name in capitals
\* resolves to the id of the device.
ResolvedByNameAndUnresolved ==
    /\ CatalogBuilt
    /\ get_device_id(devices, device_names, "KITCHEN LIGHT") = "abc"
    /\ get_device_id(devices, device_names, "Hub") = NoDevice
    /\ \E c \in Callers : Returned(c) /\ caller[c].dev = "abc"
    /\ \E c \in Callers : Returned(c) /\ caller[c].result = UnknownDevice

\* C23: whatever callers do with the values get_devices handed them, each
\* record of the catalog is as discovery wrote it (lines 80-84 and 108).
CatalogAsDiscovered ==
    \A id \in DOMAIN devices :
        /\ id \in AccountIds
        /\ devices[id].id = id
        /\ devices[id].name = Account[id].name
        /\ devices[id].type \in {Account[id].class, "light"}

\* C24: a status read of a resolved device answers from the cache exactly
\* when the entry is younger than the TTL; with an entry of age >= TTL it
\* goes on to read the SDK's state or to submit a fetch.
CachedOnlyWhileFresh ==
    [][\A c \in Callers :
        /\ caller[c].pc = "idle"
        /\ caller'[c] # caller[c]
        /\ caller'[c].op = "get_status"
        /\ Resolved(caller'[c].dev)
        => LET d == caller'[c].dev
               young == d \in DOMAIN status_cache
                            /\ now - status_cache[d].ts < CACHE_TTL
           IN  /\ young => /\ caller'[c].pc = "idle"
                           /\ caller'[c].result = status_cache[d].data
               /\ ~young /\ d \in DOMAIN status_cache
                    => caller'[c].pc \in {"store", "submit"}
               /\ ~young /\ caller'[c].pc = "idle"
                    => HasError(caller'[c].result)]_vars

\* C24 witness: a status read found an entry of age TTL exactly and went on
\* to a fresh read.
ExpiredEntryReadAfresh ==
    \E c \in Callers :
        /\ caller[c].op = "get_status"
        /\ caller[c].pc \in {"store", "submit"}
        /\ caller[c].dev \in DOMAIN status_cache
        /\ now - status_cache[caller[c].dev].ts = CACHE_TTL

\* C25: every entry of the status cache is stored under a catalogued id and
\* holds a snapshot with on and brightness, no error field, and the time it
\* was stored.
CacheHoldsOnlyGoodSnapshots ==
    \A d \in DOMAIN status_cache :
        LET e == status_cache[d] IN
        /\ d \in DOMAIN devices
        /\ DOMAIN e = {"data", "ts"}
        /\ e.ts \in 0..now
        /\ DOMAIN e.data = {"kind", "on", "brightness"}
        /\ e.data.kind = "status"
        /\ e.data \in [kind : {"status"}, on : BOOLEAN,
                        brightness : Levels \cup {LitState.brightness}]

\* C25 witness: one status read stored a snapshot and another ended with an
\* error status from a failed fetch, which was not stored.
ErrorStatusNotCached ==
    /\ "abc" \in DOMAIN status_cache
    /\ \E c \in Callers :
        /\ Returned(c)
        /\ caller[c].op = "get_status"
        /\ caller[c].got # 0
        /\ caller[c].result = StatusErr("API fetch failed")

\* C26: a status read whose fetch was submitted and failed (refused, raised,
\* or not finished within the wait) returns a status object with on=false,
\* brightness=0 and an error field.
FailedFetchGivesErrorStatus ==
    \A c \in Callers :
        /\ Returned(c)
        /\ caller[c].op = "get_status"
        /\ caller[c].fut # 0
        /\ "error" \in DOMAIN caller[c].result
        => /\ DOMAIN caller[c].result = {"kind", "on", "brightness", "error"}
           /\ caller[c].result.on = FALSE
           /\ caller[c].result.brightness = 0

\* C27: when get_all_status returns its report, the report has one entry
\* for each catalogued device of type light and none for any other device,
\* and an entry that carries an error field has on=false and brightness=0.
AllStatusEntriesWellFormed ==
    [][\A c \in Callers :
        /\ caller[c].pc = "all_next"
        /\ caller'[c].pc = "idle"
        /\ caller'[c].result.kind = "all"
        => LET entries == caller'[c].result.entries IN
            /\ DOMAIN entries = {id \in DOMAIN devices : devices[id].type = "light"}
            /\ \A id \in DOMAIN entries :
                "error" \in DOMAIN entries[id]
                    => /\ {"on", "brightness"} \subseteq DOMAIN entries[id]
                       /\ entries[id].on = FALSE
                       /\ entries[id].brightness = 0]_vars

\* C28: a caller thread obtains device state of the session only through a
\* submission to the background loop: a snapshot a caller is about to cache
\* is the result of a future that caller waited for.
SnapshotsComeThroughSubmission ==
    \A c \in Callers :
        caller[c].pc = "store"
            => /\ caller[c].got \in DOMAIN tasks
               /\ tasks[caller[c].got].owner = c
               /\ caller[c].result = tasks[caller[c].got].outcome

\* C29: once the ready event is set, neither the catalog nor the name index
\* changes again.
CatalogFrozenOnceReady ==
    [][ready => devices' = devices /\ device_names' = device_names]_vars

\* C30: after a score sync, the parlor percentage is strictly greater than
\* the octagon percentage when the home score is higher, the octagon
\* percentage is strictly greater when the away score is higher, and both are
\* 50 when the scores are equal.
LeaderIsBrighter ==
    score_sync.kind = "score"
        => /\ home_score > away_score => score_sync.parlor > score_sync.octagon
           /\ away_score > home_score => score_sync.octagon > score_sync.parlor
           /\ home_score = away_score
                => score_sync.parlor = 50 /\ score_sync.octagon = 50

\* C31: a status read of a resolved device takes the cache first: a fresh
\* entry is returned at once.  On a miss the SDK's in-memory state is taken
\* only from a controller that holds the device, and it is cached and
\* returned with nothing submitted; a fetch is prepared only on a miss, and
\* always when the controller does not hold the device.
StatusPrefersCacheThenPrimary ==
    [][\A c \in Callers :
        /\ (/\ caller[c].pc = "idle"
            /\ caller'[c] # caller[c]
            /\ caller'[c].op = "get_status"
            /\ Resolved(caller'[c].dev)
            => LET d == caller'[c].dev
                   fresh == d \in DOMAIN status_cache
                                /\ now - status_cache[d].ts < CACHE_TTL
                   held == PrimaryHolds(bridge, d)
               IN  /\ tasks' = tasks
                   /\ fresh => /\ caller'[c].pc = "idle"
                                /\ caller'[c].result = status_cache[d].data
                   /\ caller'[c].pc = "store"
                        => /\ ~fresh /\ held
                           /\ caller'[c].fut = 0
                           /\ caller'[c].result = Status(mem[d])
                   /\ caller'[c].pc = "submit" => ~fresh /\ bridge # 0
                   /\ ~fresh /\ bridge # 0 /\ ~held => caller'[c].pc = "submit")
        /\ (/\ caller[c].pc = "store"
            /\ caller[c].op = "get_status"
            /\ caller[c].fut = 0
            /\ caller'[c] # caller[c]
            => /\ tasks' = tasks
               /\ caller'[c].pc = "idle"
               /\ caller'[c].fut = 0
               /\ caller'[c].result = caller[c].result
               /\ caller[c].dev \in DOMAIN status_cache'
               /\ status_cache'[caller[c].dev].data = caller[c].result)]_vars

\* C31 witness: a status read was answered from the SDK's in-memory state
\* and cached while no work was ever submitted.
ServedFromMemoryWithoutWork ==
    \E c \in Callers :
        /\ Returned(c)
        /\ caller[c].op = "get_status"
        /\ caller[c].fut = 0
        /\ caller[c].dev \in DOMAIN status_cache
        /\ caller[c].result = Status(mem[caller[c].dev])
        /\ status_cache[caller[c].dev].data = caller[c].result
        /\ tasks = << >>

\* C32: the direct listing is requested only with an empty catalog and while
\* no other request for it has been made; every device the fallback adds
\* exposes the power function class; and when the request fails or raises,
\* the catalog is empty afterwards and the ready event is set.
FallbackOnceOnEmptyCatalog ==
    [][\A t \in Threads :
        /\ (worker[t].pc # "fallback" /\ worker'[t].pc = "fallback"
            => /\ devices = EmptyDict
               /\ \A u \in Threads \ {t} :
                    worker[u].pc \notin {"fallback", "fallback_fill"})
        /\ (worker[t].pc = "fallback_fill" /\ devices' # devices
            => \A id \in DOMAIN devices' \ DOMAIN devices : Account[id].power)
        /\ (worker[t].pc = "fallback" /\ worker'[t].pc = "idle"
            => devices' = EmptyDict /\ ready')]_vars

\* No discovery loop is between two of its catalog writes.
DiscoveryAtRest == \A t \in Threads : worker[t].pc \notin {"discover", "fallback_fill"}

\* C33: every catalog write puts the device under its lower-cased name in the
\* index, replacing whatever id the name had, and removes no device; every
\* catalogued device resolves to itself by its id; and with the two devices
\* of one name both catalogued and discovery at rest, the name resolves to
\* the one discovery reaches last.
CollidingNamesLastWriteWins ==
    [][/\ DOMAIN devices \subseteq DOMAIN devices'
       /\ \A id \in DOMAIN devices' :
            get_device_id(devices', device_names', id) = id
       /\ devices' # devices \/ device_names' # device_names
            => \E id \in DOMAIN devices' :
                /\ devices' = Put(devices, id, devices'[id])
                /\ device_names' = Put(device_names, Lower(devices'[id].name), id)
       /\ DiscoveryAtRest' /\ {"fan1", "fan2"} \subseteq DOMAIN devices'
            => /\ Lower(devices'["fan1"].name) = Lower(devices'["fan2"].name)
               /\ get_device_id(devices', device_names', "Porch Fan") = "fan2"]_vars

\* C33 witness: both devices named "Porch Fan" are catalogued, discovery is
\* over, and the name resolves to the second of them.
PorchFanResolvesToSecond ==
    /\ DiscoveryAtRest
    /\ ready
    /\ {"fan1", "fan2"} \subseteq DOMAIN devices
    /\ devices["fan1"].name = devices["fan2"].name
    /\ get_device_id(devices, device_names, "porch fan") = "fan2"
    /\ get_device_id(devices, device_names, "fan1") = "fan1"

\* The games with a stored alert and no stored FINAL alert.
StillLive(q) ==
    {q[i].game_id : i \in 1..Len(q)}
        \ {q[i].game_id : i \in {j \in 1..Len(q) : q[j].final}}

\* C34: when score_update decides about the sync for a non-FINAL alert, it
\* calls apply_score_brightness exactly when one game is live, a game being
\* live when it has received no FINAL alert.
SyncExactlyWhenOneGameLive ==
    [][\A r \in Requests :
        handler[r].pc = "sync" /\ handler'[r].pc # "sync"
            => (handler'[r].applied <=> Cardinality(StillLive(alerts)) = 1)]_vars

\* C35: no two stored alerts carry the same alert_id, a response reports
\* the id given to the alert of its own request, and the store holds at most
\* 50 alerts.
AlertIdsUnique ==
    /\ \A i, j \in 1..Len(alerts) :
            i # j => alerts[i].alert_id # alerts[j].alert_id
    /\ \A r \in Requests :
            handler[r].pc = "idle" /\ handler[r].response.kind = "ok"
                => handler[r].response.alert_id = handler[r].stamped
    /\ Len(alerts) <= ALERTS_MAXLEN

\* C36: a catalog that holds a device implies that the bridge and the event
\* loop exist, and no call on an identifier that resolved has returned the
\* "Hubspace not connected" error of _run_async or the "Not connected"
\* status of get_status.
CatalogImpliesConnected ==
    /\ DOMAIN devices # {} => bridge # 0 /\ loop # 0
    /\ \A c \in Callers :
            Returned(c) /\ Resolved(caller[c].dev)
                => caller[c].result \notin {NotConnected, StatusErr("Not connected")}

\* C36 witness: with devices catalogued, a call on a resolved device went
\* through _run_async and has returned without an error.
ResolvedCallServedConnected ==
    /\ DOMAIN devices # {}
    /\ \E c \in Callers :
        /\ Returned(c)
        /\ Resolved(caller[c].dev)
        /\ caller[c].got # 0
        /\ ~HasError(caller[c].result)

\* The caller of coroutine k got the timeout error while k was not finished.
Abandoned(k) ==
    IF k \in DOMAIN tasks
    THEN /\ tasks[k].pc # "done"
         /\ caller[tasks[k].owner].pc = "idle"
         /\ caller[tasks[k].owner].fut = k
         /\ caller[tasks[k].owner].result = TimedOut
    ELSE FALSE

\* Coroutine k has finished: each request it issued was answered, and it has
\* an outcome that no caller took.
RanToCompletion(k) ==
    IF k \in DOMAIN tasks
    THEN /\ tasks[k].pc = "done"
         /\ tasks[k].outcome # NoResult
         /\ Len(tasks[k].answers) = Len(tasks[k].sent)
         /\ tasks[k].delivered = 0
    ELSE FALSE

\* C37: the timeout of a caller's wait leaves the submitted coroutines as
\* they are, and a coroutine whose caller has got the timeout error goes on
\* to completion once its requests are answered.
TimeoutNeverCancelsWork ==
    /\ [][\A c \in Callers :
            /\ caller[c].pc = "wait"
            /\ caller'[c].pc = "idle"
            /\ caller'[c].result = TimedOut
            => tasks' = tasks /\ cloud' = cloud]_vars
    /\ \A k \in 1..MaxCalls : Abandoned(k) ~> RanToCompletion(k)

\* C37 witness: a command whose caller timed out has since sent its power
\* request and its value request and finished with success.
AbandonedCommandFinished ==
    \E k \in DOMAIN tasks :
        /\ tasks[k].pc = "done"
        /\ tasks[k].outcome = Ok
        /\ tasks[k].delivered = 0
        /\ Len(tasks[k].sent) >= 2
        /\ caller[tasks[k].owner].pc = "idle"
        /\ caller[tasks[k].owner].fut = k
        /\ caller[tasks[k].owner].result = TimedOut

====
